---- MODULE Spec2Model ----
(***************************************************************************)
(* Model of the chat interface of src/components/ChatInterfaceWithSidebar  *)
(* (sendMessage, toggleMessageView, renderMessageContent) and of           *)
(* src/components/DashboardRenderer.                                       *)
(*                                                                         *)
(* Text is a sequence of characters.  A character is a TLA+ string; the    *)
(* words of the alphabet ("null", "textView", "hi", ...) stand for the     *)
(* letters they are spelled with and are never split.                      *)
(*                                                                         *)
(* A JavaScript value is a pair <<tag, payload>>:                          *)
(*   <<"undef", <<>>>>  <<"null", <<>>>>  <<"true", <<>>>> <<"false", <<>>>>*)
(*   <<"num", digits>>  <<"str", text>>   <<"arr", <<v1, ..., vn>>>>        *)
(*   <<"obj", << <<key1, v1>>, ..., <<keyn, vn>> >>>>   (key: text)         *)
(***************************************************************************)
EXTENDS Integers, Sequences, FiniteSets, TLC

(***************************************************************************)
(* JavaScript values                                                       *)
(***************************************************************************)
Undef == <<"undef", <<>>>>
JNull == <<"null", <<>>>>
JTrue == <<"true", <<>>>>
JFalse == <<"false", <<>>>>
JNum(d) == <<"num", d>>
JStr(s) == <<"str", s>>
JArr(xs) == <<"arr", xs>>
JObj(ps) == <<"obj", ps>>

Tag(v) == v[1]
Pay(v) == v[2]

QUOTE == "\""
BSLASH == "\\"
Digits == {"0", "1", "5"}
IsSpace(c) == c = " "

\* ToBoolean: undefined, null, false, 0 and "" are falsy.
Truthy(v) ==
  CASE Tag(v) \in {"undef", "null", "false"} -> FALSE
    [] Tag(v) = "num" -> Pay(v) # <<"0">>
    [] Tag(v) = "str" -> Pay(v) # <<>>
    [] OTHER -> TRUE

\* Reading a property of undefined or null throws a TypeError.
CanRead(v) == Tag(v) \notin {"undef", "null"}

RECURSIVE Lookup(_, _, _)
Lookup(ps, key, i) ==
  IF i = 0 THEN Undef
  ELSE IF ps[i][1] = key THEN ps[i][2] ELSE Lookup(ps, key, i - 1)

\* v.name for a value that can be read; only objects own the names used.
Get(v, name) ==
  IF Tag(v) = "obj" THEN Lookup(Pay(v), <<name>>, Len(Pay(v))) ELSE Undef

IsArray(v) == Tag(v) = "arr"

\* v.length: defined on strings and arrays (and on objects that own it).
HasLength(v) == Tag(v) \in {"str", "arr"}
Length(v) == Len(Pay(v))

(***************************************************************************)
(* JSON.stringify                                                          *)
(***************************************************************************)
RECURSIVE Escape(_)
Escape(s) ==
  IF s = <<>> THEN <<>>
  ELSE IF Head(s) \in {QUOTE, BSLASH}
       THEN <<BSLASH, Head(s)>> \o Escape(Tail(s))
       ELSE <<Head(s)>> \o Escape(Tail(s))

Quote(s) == <<QUOTE>> \o Escape(s) \o <<QUOTE>>

RECURSIVE Stringify(_)
RECURSIVE StringifyElems(_, _)
RECURSIVE StringifyMembers(_, _)
\* Array elements i..n, comma separated; undefined elements print as null.
StringifyElems(xs, i) ==
  IF i > Len(xs) THEN <<>>
  ELSE (IF i > 1 THEN <<",">> ELSE <<>>)
       \o (IF Tag(xs[i]) = "undef" THEN <<"null">> ELSE Stringify(xs[i]))
       \o StringifyElems(xs, i + 1)

\* Object members; a member whose value is undefined is left out.
StringifyMembers(ps, first) ==
  IF ps = <<>> THEN <<>>
  ELSE IF Tag(Head(ps)[2]) = "undef" THEN StringifyMembers(Tail(ps), first)
  ELSE (IF first THEN <<>> ELSE <<",">>)
       \o Quote(Head(ps)[1]) \o <<":">> \o Stringify(Head(ps)[2])
       \o StringifyMembers(Tail(ps), FALSE)

Stringify(v) ==
  CASE Tag(v) = "null" -> <<"null">>
    [] Tag(v) = "true" -> <<"true">>
    [] Tag(v) = "false" -> <<"false">>
    [] Tag(v) = "num" -> Pay(v)
    [] Tag(v) = "str" -> Quote(Pay(v))
    [] Tag(v) = "arr" -> <<"[">> \o StringifyElems(Pay(v), 1) \o <<"]">>
    [] Tag(v) = "obj" -> <<"{">> \o StringifyMembers(Pay(v), TRUE) \o <<"}">>

(***************************************************************************)
(* JSON.parse: a recursive-descent parser over the characters of s.        *)
(* A parse step returns <<ok, value, next index>>.                         *)
(***************************************************************************)
Fail == <<FALSE, Undef, 0>>

RECURSIVE SkipWs(_, _)
SkipWs(s, i) == IF i <= Len(s) /\ IsSpace(s[i]) THEN SkipWs(s, i + 1) ELSE i

RECURSIVE ParseChars(_, _, _)
\* The characters of a string literal, from i (after the opening quote).
ParseChars(s, i, acc) ==
  IF i > Len(s) THEN Fail
  ELSE IF s[i] = QUOTE THEN <<TRUE, JStr(acc), i + 1>>
  ELSE IF s[i] = BSLASH
       THEN IF i + 1 <= Len(s) /\ s[i + 1] \in {QUOTE, BSLASH}
            THEN ParseChars(s, i + 2, Append(acc, s[i + 1]))
            ELSE Fail
  ELSE ParseChars(s, i + 1, Append(acc, s[i]))

RECURSIVE ParseDigits(_, _, _)
ParseDigits(s, i, acc) ==
  IF i <= Len(s) /\ s[i] \in Digits
  THEN ParseDigits(s, i + 1, Append(acc, s[i]))
  ELSE IF Len(acc) > 1 /\ acc[1] = "0" THEN Fail
  ELSE <<TRUE, JNum(acc), i>>

RECURSIVE SetMember(_, _, _, _)
\* A repeated key keeps its first position and takes the last value.
SetMember(ps, key, val, i) ==
  IF i > Len(ps) THEN Append(ps, <<key, val>>)
  ELSE IF ps[i][1] = key THEN [ps EXCEPT ![i] = <<key, val>>]
  ELSE SetMember(ps, key, val, i + 1)

RECURSIVE ParseValue(_, _)
RECURSIVE ParseElems(_, _, _)
RECURSIVE ParseMembers(_, _, _)

\* After an element r of an array at j: "," and more, or "]".
ElemsAfter(s, acc, r, j) ==
  IF ~r[1] \/ j > Len(s) THEN Fail
  ELSE IF s[j] = "," THEN ParseElems(s, j + 1, Append(acc, r[2]))
  ELSE IF s[j] = "]" THEN <<TRUE, JArr(Append(acc, r[2])), j + 1>>
  ELSE Fail

ElemsValue(s, acc, r) == ElemsAfter(s, acc, r, IF r[1] THEN SkipWs(s, r[3]) ELSE 0)

\* After "[" or ",": a value, then "," or "]".
ParseElems(s, i, acc) == ElemsValue(s, acc, ParseValue(s, i))

\* After a member key: r of an object at j: "," and more, or "}".
MembersAfter(s, ps, r, j) ==
  IF ~r[1] \/ j > Len(s) THEN Fail
  ELSE IF s[j] = "," THEN ParseMembers(s, j + 1, ps)
  ELSE IF s[j] = "}" THEN <<TRUE, JObj(ps), j + 1>>
  ELSE Fail

MembersValue(s, acc, key, r) ==
  IF ~r[1] THEN Fail
  ELSE MembersAfter(s, SetMember(acc, Pay(key[2]), r[2], 1), r, SkipWs(s, r[3]))

MembersColon(s, acc, key, c) ==
  IF c > Len(s) \/ s[c] # ":" THEN Fail
  ELSE MembersValue(s, acc, key, ParseValue(s, c + 1))

MembersKey(s, acc, key) ==
  IF ~key[1] THEN Fail ELSE MembersColon(s, acc, key, SkipWs(s, key[3]))

MembersStart(s, acc, k) ==
  IF k > Len(s) \/ s[k] # QUOTE THEN Fail
  ELSE MembersKey(s, acc, ParseChars(s, k + 1, <<>>))

\* After "{" or ",": a string key, ":", a value, then "," or "}".
ParseMembers(s, i, acc) == MembersStart(s, acc, SkipWs(s, i))

\* An array or object opened at i; j is the first character after the bracket.
ParseOpen(s, i, j) ==
  IF s[i] = "["
  THEN IF j <= Len(s) /\ s[j] = "]" THEN <<TRUE, JArr(<<>>), j + 1>>
       ELSE ParseElems(s, i + 1, <<>>)
  ELSE IF j <= Len(s) /\ s[j] = "}" THEN <<TRUE, JObj(<<>>), j + 1>>
       ELSE ParseMembers(s, i + 1, <<>>)

ValueAt(s, i) ==
  IF i > Len(s) THEN Fail
  ELSE CASE s[i] = "null" -> <<TRUE, JNull, i + 1>>
         [] s[i] = "true" -> <<TRUE, JTrue, i + 1>>
         [] s[i] = "false" -> <<TRUE, JFalse, i + 1>>
         [] s[i] \in Digits -> ParseDigits(s, i, <<>>)
         [] s[i] = QUOTE -> ParseChars(s, i + 1, <<>>)
         [] s[i] \in {"[", "{"} -> ParseOpen(s, i, SkipWs(s, i + 1))
         [] OTHER -> Fail

ParseValue(s, i0) == ValueAt(s, SkipWs(s, i0))

WholeText(s, r) ==
  IF r[1] /\ SkipWs(s, r[3]) > Len(s) THEN <<TRUE, r[2]>> ELSE <<FALSE, Undef>>

\* JSON.parse of text: <<ok, value>>; ok = FALSE is a SyntaxError.
ParseText(s) == WholeText(s, ParseValue(s, 1))

RECURSIVE ToStr(_)
RECURSIVE JoinElems(_, _)
\* Array.prototype.join(","): null and undefined elements give "".
JoinElems(xs, i) ==
  IF i > Len(xs) THEN <<>>
  ELSE (IF i > 1 THEN <<",">> ELSE <<>>)
       \o (IF Tag(xs[i]) \in {"null", "undef"} THEN <<>> ELSE ToStr(xs[i]))
       \o JoinElems(xs, i + 1)

\* ToString, which JSON.parse applies to its argument.
ToStr(v) ==
  CASE Tag(v) = "str" -> Pay(v)
    [] Tag(v) = "num" -> Pay(v)
    [] Tag(v) = "arr" -> JoinElems(Pay(v), 1)
    [] Tag(v) = "obj" -> <<"[", "object", " ", "Object", "]">>
    [] OTHER -> <<Tag(v)>>

\* JSON.parse(v) for a JavaScript value v.
JSONParse(v) == ParseText(ToStr(v))

(***************************************************************************)
(* Text helpers and program constants                                      *)
(***************************************************************************)
RECURSIVE TrimStart(_)
TrimStart(s) == IF s # <<>> /\ IsSpace(Head(s)) THEN TrimStart(Tail(s)) ELSE s

RECURSIVE TrimEnd(_)
TrimEnd(s) ==
  IF s # <<>> /\ IsSpace(s[Len(s)]) THEN TrimEnd(SubSeq(s, 1, Len(s) - 1)) ELSE s

\* String.prototype.trim
Trim(s) == TrimEnd(TrimStart(s))

\* The apology stored on the failure path (one word of the alphabet).
errorMessage == <<"I'm sorry, I'm having trouble connecting right now.">>
\* The text setError is called with.
FailedToSend == "Failed to send message."

Str(w) == JStr(<<w>>)
Obj1(k, v) == JObj(<< <<<<k>>, v>> >>)
Obj2(k1, v1, k2, v2) == JObj(<< <<<<k1>>, v1>>, <<<<k2>>, v2>> >>)
EmptyObj == JObj(<<>>)

(***************************************************************************)
(* Response normalization, sendMessage lines 149-174.                      *)
(* <<ok, assistantResponse>>; ok = FALSE: a TypeError reaches the outer    *)
(* catch (data.response read on null).                                     *)
(***************************************************************************)
\* Lines 156-170: the old format.  A SyntaxError of JSON.parse, and the
\* TypeError of reading null.textView, are both caught by the inner catch.
OldFormat(response, mo, parsed) ==
  IF parsed[1] /\ CanRead(parsed[2]) /\ Truthy(Get(parsed[2], "textView"))
  THEN parsed[2]
  ELSE Obj2("textView", response,
            "dashboardView", IF Truthy(mo) THEN mo ELSE EmptyObj)

\* The old format without the inner try: the failure reaches the outer catch.
UncaughtOldFormat(data, response, mo) ==
  IF Truthy(response)
  THEN IF JSONParse(response)[1] /\ CanRead(JSONParse(response)[2])
       THEN <<TRUE, IF Truthy(Get(JSONParse(response)[2], "textView"))
                    THEN JSONParse(response)[2]
                    ELSE Obj2("textView", response, "dashboardView",
                              IF Truthy(mo) THEN mo ELSE EmptyObj)>>
       ELSE <<FALSE, Undef>>
  ELSE <<TRUE, data>>

\* Lines 154-174: the old format when response is truthy, else the body.
NormalizeFields(data, response, mo) ==
  IF Truthy(response)
  THEN <<TRUE, OldFormat(response, mo, JSONParse(response))>>
  ELSE <<TRUE, data>>

Normalize(data) ==
  IF ~CanRead(data) THEN <<FALSE, Undef>>
  ELSE NormalizeFields(data, Get(data, "response"), Get(data, "module_outputs"))

(***************************************************************************)
(* renderMessageContent, lines 207-307                                     *)
(***************************************************************************)
\* Lines 215-227: JSON.parse(content); when that throws, the second attempt
\* JSON.parse(JSON.parse(content)) starts with the same JSON.parse(content).
SecondAttempt(inner) ==
  IF inner[1] THEN JSONParse(inner[2]) ELSE <<FALSE, Undef>>

FirstAttempt(content, first) ==
  IF first[1] THEN first ELSE SecondAttempt(ParseText(content))

ParseContent(content) == FirstAttempt(content, ParseText(content))

\* Lines 240-258: the old format, with the reply embedded in response or not.
ShapeB(response, mo, responseJson) ==
  IF /\ responseJson[1]
     /\ CanRead(responseJson[2])
     /\ Truthy(Get(responseJson[2], "textView"))
  THEN [shape |-> "B", textContent |-> Get(responseJson[2], "textView"),
        dashboardContent |->
          IF ~Truthy(Get(responseJson[2], "dashboardView")) /\ Truthy(mo)
          THEN mo ELSE Get(responseJson[2], "dashboardView")]
  ELSE [shape |-> "B", textContent |-> response,
        dashboardContent |-> IF Truthy(mo) THEN mo ELSE JNull]

\* Lines 229-264 and 296-306.  "raw" is the outer catch: the parse failed,
\* or parsedContent.textView was read on null.
ClassifyParsed(content, parsed) ==
  IF ~parsed[1] \/ ~CanRead(parsed[2])
  THEN [shape |-> "raw", textContent |-> JStr(content),
        dashboardContent |-> JNull]
  ELSE IF Truthy(Get(parsed[2], "textView"))
  THEN [shape |-> "A", textContent |-> Get(parsed[2], "textView"),
        dashboardContent |-> Get(parsed[2], "dashboardView")]
  ELSE IF Truthy(Get(parsed[2], "response"))
  THEN ShapeB(Get(parsed[2], "response"), Get(parsed[2], "module_outputs"),
              JSONParse(Get(parsed[2], "response")))
  ELSE [shape |-> "C", textContent |-> JStr(content),
        dashboardContent |-> JNull]

\* Lines 212-264: the shape taken, textContent and dashboardContent.
Classify(content) == ClassifyParsed(content, ParseContent(content))

\* Line 208: messageViewModes[message.id] || 'text'
ViewMode(modes, id) == IF id \in DOMAIN modes THEN modes[id] ELSE "text"

\* Lines 266-306: the element returned for the classified content.
Select(message, modes, c) ==
  IF c.shape = "raw"
  THEN [kind |-> "rawMarkdown", content |-> JStr(message.content)]
  ELSE IF ViewMode(modes, message.id) = "dashboard" /\ Truthy(c.dashboardContent)
  THEN [kind |-> "dashboard", content |-> c.dashboardContent]
  ELSE [kind |-> "markdown", content |-> c.textContent]

\* The element renderMessageContent returns for a message.
RenderMessageContent(message, modes) ==
  Select(message, modes, Classify(message.content))

(***************************************************************************)
(* DashboardRenderer, DashboardRenderer.tsx lines 41-196: TRUE when the    *)
(* component's own expressions evaluate without a TypeError.               *)
(***************************************************************************)
\* x.length > 0
LengthPositive(x) ==
  IF HasLength(x) THEN Length(x) > 0
  ELSE LET n == Get(x, "length") IN Tag(n) = "num" /\ Pay(n) # <<"0">>

\* x && x.length > 0: the guard of summaryCards, alerts, recommendations
Guarded(x) == Truthy(x) /\ LengthPositive(x)

\* Lines 75-87: card.title, card.value, card.description
CardOk(card) == CanRead(card)

\* Lines 44-52: the points of a chart, labels zipped with values (0 if none).
transformChartData(data) ==
  IF ~Truthy(data) \/ ~IsArray(Get(data, "labels"))
     \/ ~IsArray(Get(data, "values")) \/ Length(Get(data, "labels")) = 0
  THEN <<>>
  ELSE [i \in 1..Length(Get(data, "labels")) |->
          <<Pay(Get(data, "labels"))[i],
            IF i <= Length(Get(data, "values"))
               /\ CanRead(Pay(Get(data, "values"))[i])
            THEN Pay(Get(data, "values"))[i] ELSE JNum(<<"0">>)>>]

\* Lines 92-133: chart.data is read; the chart is skipped without points.
ChartOk(chart) == CanRead(chart)

\* Lines 149-155: table.rows.map, row.map
RowsOk(rows) ==
  IsArray(rows) /\ \A i \in 1..Length(rows) : IsArray(Pay(rows)[i])

\* Lines 136-160: table.title, table.headers.map, table.rows.map
TableOk(table) ==
  /\ CanRead(table)
  /\ IsArray(Get(table, "headers"))
  /\ RowsOk(Get(table, "rows"))

\* Lines 55-68: getAlertVariant and getAlertMessage read alert.type and
\* alert.message unless the alert is a string.
AlertOk(alert) == Tag(alert) = "str" \/ CanRead(alert)

DashboardRenderer(content) ==
  LET summaryCards == Get(content, "summaryCards")
      charts == Get(content, "charts")
      tables == Get(content, "tables")
      alerts == Get(content, "alerts")
      recommendations == Get(content, "recommendations")
  IN /\ Guarded(summaryCards) =>
          IsArray(summaryCards)
          /\ \A i \in 1..Length(summaryCards) : CardOk(Pay(summaryCards)[i])
     \* content.charts?.map and content.tables?.map
     /\ CanRead(charts) =>
          IsArray(charts) /\ \A i \in 1..Length(charts) : ChartOk(Pay(charts)[i])
     /\ CanRead(tables) =>
          IsArray(tables) /\ \A i \in 1..Length(tables) : TableOk(Pay(tables)[i])
     /\ Guarded(alerts) =>
          IsArray(alerts) /\ \A i \in 1..Length(alerts) : AlertOk(Pay(alerts)[i])
     /\ Guarded(recommendations) => IsArray(recommendations)

\* What React shows for a message: the element's kind, or "threw" when
\* rendering the DashboardRenderer element throws.
Mount(el) ==
  IF el.kind = "dashboard" /\ ~DashboardRenderer(el.content)
  THEN [kind |-> "threw", content |-> el.content]
  ELSE el

Draw(message, modes) == Mount(RenderMessageContent(message, modes))

\* The toggle that only ever switches to the dashboard.
StickyToggle(prev, messageId) ==
  [id \in DOMAIN prev \cup {messageId} |->
     IF id = messageId THEN "dashboard" ELSE prev[id]]

\* Lines 71-76: the mapping after toggleMessageView(messageId).
toggleMessageView(prev, messageId) ==
  [id \in DOMAIN prev \cup {messageId} |->
     IF id = messageId
     THEN IF messageId \in DOMAIN prev /\ prev[messageId] = "dashboard"
          THEN "text" ELSE "dashboard"
     ELSE prev[id]]

(***************************************************************************)
(* State                                                                   *)
(***************************************************************************)
VARIABLES
  user,              \* useAuth().user is present
  currentSessionId,  \* useChatSession(): 0 is null
  messages,          \* useChatSession(): the message list
  sessionTitle,      \* the title updateSessionTitle last stored
  inputMessage,      \* useState('')
  isLoading,         \* useState(false): the in-flight flag
  error,             \* useState(null): "null" or the error text
  messageViewModes,  \* useState({}): message id -> "text" | "dashboard"
  calls,             \* the sendMessage invocations, by number
  toggled,           \* the last toggleMessageView run: id, count, output before
  lastReply          \* the last body normalized and the reply stored for it

vars == <<user, currentSessionId, messages, sessionTitle, inputMessage,
          isLoading, error, messageViewModes, calls, toggled, lastReply>>

MaxCalls == 2
CallIds == 1..MaxCalls

\* What the user can type.
Inputs == {<<>>, <<" ">>, <<"hi">>}

\* Bodies the agent endpoint answers with in the dispatcher's runs.
DispatchBodies ==
  { JNull,
    Obj2("response", Str("plain"), "module_outputs", Obj1("alerts", JArr(<<Str("warn")>>))),
    Obj1("response", JStr(Stringify(Obj2("textView", Str("hi"), "dashboardView", EmptyObj)))),
    Obj1("response", Str("null")),
    Obj2("textView", JStr(<<>>), "dashboardView", EmptyObj) }

Welcome == [id |-> <<"welcome-", 1>>, sender |-> "assistant",
            content |-> <<"Welcome">>]

NewMessage(msgs, sender, content) ==
  [id |-> <<"msg-", Len(msgs) + 1>>, sender |-> sender, content |-> content]

\* message.id.startsWith('welcome-')
IsWelcome(msg) == msg.id[1] = "welcome-"

IdleCall ==
  [pc |-> "idle", ret |-> "none", sessionId |-> 0, text |-> <<>>,
   seen |-> <<>>, setLoading |-> FALSE, saves |-> <<>>, requests |-> 0,
   titled |-> FALSE, fetched |-> "none", body |-> Undef, errSet |-> FALSE,
   toasted |-> FALSE]

InitShared ==
  /\ currentSessionId = 0
  /\ messages = <<>>
  /\ sessionTitle = <<>>
  /\ inputMessage = <<>>
  /\ isLoading = FALSE
  /\ error = "null"
  /\ messageViewModes = [i \in {} |-> "text"]
  /\ calls = [c \in CallIds |-> IdleCall]
  /\ toggled = [id |-> <<>>, n |-> 0, before |-> <<>>]
  /\ lastReply = [body |-> Undef, ok |-> FALSE, reply |-> Undef]

Init == user \in BOOLEAN /\ InitShared

(***************************************************************************)
(* sendMessage, split at its awaits.  A call reads the state of the render *)
(* it was created in: inputMessage, isLoading, user, currentSessionId and  *)
(* messages are those of the moment of the invocation.                     *)
(***************************************************************************)
Settle(call, how) == [call EXCEPT !.pc = "settled", !.ret = how]

\* Lines 98-103: take the text, clear the input, set the flag, start the save.
Begin(c, call, sid) ==
  /\ inputMessage' = <<>>
  /\ isLoading' = TRUE
  /\ error' = "null"
  /\ calls' = [calls EXCEPT ![c] =
       [call EXCEPT !.pc = "saveUser", !.sessionId = sid, !.setLoading = TRUE,
                    !.saves = Append(@, <<"user", call.text, "pending">>)]]

\* Line 89 without the trim.
UntrimmedGuard(input, loading, usr) == input = <<>> \/ loading \/ ~usr

\* Line 89: !inputMessage.trim() || isLoading || !user
Guard(input, loading, usr) == Trim(input) = <<>> \/ loading \/ ~usr

\* Line 89, then lines 91-94 or 98-103.
SendMessage(c) ==
  /\ calls[c].pc = "idle"
  /\ \A d \in CallIds : d < c => calls[d].pc # "idle"
  /\ LET call == [calls[c] EXCEPT !.text = inputMessage, !.seen = messages] IN
     IF Guard(inputMessage, isLoading, user)
     THEN /\ calls' = [calls EXCEPT ![c] = Settle(call, "guard")]
          /\ UNCHANGED <<inputMessage, isLoading, error>>
     ELSE IF currentSessionId = 0
     THEN /\ calls' = [calls EXCEPT ![c] = [call EXCEPT !.pc = "createSession"]]
          /\ UNCHANGED <<inputMessage, isLoading, error>>
     ELSE Begin(c, call, currentSessionId)
  /\ UNCHANGED <<user, currentSessionId, messages, sessionTitle,
                 messageViewModes, toggled, lastReply>>

\* The outcome of the save a call is waiting for.
Saved(call, outcome) ==
  [call EXCEPT !.saves[Len(call.saves)][3] = outcome]

\* Line 114: the request is issued.
IssueFetch(call) == [call EXCEPT !.pc = "fetch", !.requests = @ + 1]

\* Lines 179-190: the catch block up to its await.
Catch(c, call) ==
  /\ error' = FailedToSend
  /\ calls' = [calls EXCEPT ![c] =
       [call EXCEPT !.pc = "saveApology", !.errSet = TRUE, !.toasted = TRUE,
                    !.saves = Append(@, <<"assistant", errorMessage, "pending">>)]]

\* Lines 94-103: createNewSession() settles.  The hook, on success, makes the
\* new session current and gives it its welcome message.
CreateSessionReturns(c) ==
  /\ calls[c].pc = "createSession"
  /\ \E outcome \in {"id", "null", "throw"} :
       IF outcome = "id"
       THEN /\ currentSessionId' = currentSessionId + 1
            /\ messages' = <<Welcome>>
            /\ Begin(c, calls[c], currentSessionId + 1)
       ELSE /\ calls' = [calls EXCEPT ![c] =
                 Settle(@, IF outcome = "null" THEN "nosession" ELSE "threw")]
            /\ UNCHANGED <<currentSessionId, messages, inputMessage,
                           isLoading, error>>
  /\ UNCHANGED <<user, sessionTitle, messageViewModes, toggled, lastReply>>

\* Lines 103-114: saveMessage(userMessageContent, 'user') settles; then the
\* title decision on the messages of the call's render, and the request.
SaveUserReturns(c) ==
  /\ calls[c].pc = "saveUser"
  /\ \E outcome \in {"ok", "throw"} :
       LET call == Saved(calls[c], outcome)
           nonWelcomeMessages == SelectSeq(call.seen, LAMBDA m : ~IsWelcome(m))
           isFirstMessage == Len(nonWelcomeMessages) <= 1
       IN IF outcome = "throw"
          THEN /\ calls' = [calls EXCEPT ![c] = Settle(call, "threw")]
               /\ UNCHANGED messages
          ELSE /\ messages' = Append(messages,
                                     NewMessage(messages, "user", call.text))
               /\ calls' = [calls EXCEPT ![c] =
                    IF isFirstMessage /\ call.sessionId # 0
                    THEN [call EXCEPT !.pc = "updateTitle"]
                    ELSE IssueFetch(call)]
  /\ UNCHANGED <<user, currentSessionId, sessionTitle, inputMessage, isLoading,
                 error, messageViewModes, toggled, lastReply>>

\* Lines 108-114: updateSessionTitle(sessionId, userMessageContent) settles.
UpdateTitleReturns(c) ==
  /\ calls[c].pc = "updateTitle"
  /\ \E outcome \in {"ok", "throw"} :
       IF outcome = "throw"
       THEN /\ calls' = [calls EXCEPT ![c] = Settle(@, "threw")]
            /\ UNCHANGED sessionTitle
       ELSE /\ sessionTitle' = calls[c].text
            /\ calls' = [calls EXCEPT ![c] =
                 IssueFetch([@ EXCEPT !.titled = TRUE])]
  /\ UNCHANGED <<user, currentSessionId, messages, inputMessage, isLoading,
                 error, messageViewModes, toggled, lastReply>>

\* Lines 114-149: fetch settles; a non-2xx status throws at line 147.
FetchReturns(c) ==
  /\ calls[c].pc = "fetch"
  /\ \E res \in {"ok", "non2xx", "reject"} :
       LET call == [calls[c] EXCEPT !.fetched = res] IN
       IF res = "ok"
       THEN /\ calls' = [calls EXCEPT ![c] = [call EXCEPT !.pc = "json"]]
            /\ UNCHANGED error
       ELSE Catch(c, call)
  /\ UNCHANGED <<user, currentSessionId, messages, sessionTitle, inputMessage,
                 isLoading, messageViewModes, toggled, lastReply>>

\* Lines 149-177: response.json() settles with a parsed body or rejects;
\* the body is normalized, serialized and handed to saveMessage.
JsonReturns(c) ==
  /\ calls[c].pc = "json"
  /\ \/ Catch(c, [calls[c] EXCEPT !.fetched = "badjson"])
     \/ \E data \in DispatchBodies :
          LET call == [calls[c] EXCEPT !.body = data]
              norm == Normalize(data)
          IN IF norm[1]
             THEN /\ calls' = [calls EXCEPT ![c] =
                       [call EXCEPT !.pc = "saveAssistant",
                          !.saves = Append(@, <<"assistant",
                                       Stringify(norm[2]), "pending">>)]]
                  /\ UNCHANGED error
             ELSE Catch(c, call)
  /\ UNCHANGED <<user, currentSessionId, messages, sessionTitle, inputMessage,
                 isLoading, messageViewModes, toggled, lastReply>>

\* Lines 177-193: saveMessage(JSON.stringify(assistantResponse), 'assistant')
\* settles: the finally block, or the catch block when it rejects.
SaveAssistantReturns(c) ==
  /\ calls[c].pc = "saveAssistant"
  /\ \E outcome \in {"ok", "throw"} :
       LET call == Saved(calls[c], outcome) IN
       IF outcome = "ok"
       THEN /\ messages' = Append(messages, NewMessage(messages, "assistant",
                                     call.saves[Len(call.saves)][2]))
            /\ isLoading' = FALSE
            /\ calls' = [calls EXCEPT ![c] = Settle(call, "done")]
            /\ UNCHANGED error
       ELSE /\ Catch(c, call)
            /\ UNCHANGED <<messages, isLoading>>
  /\ UNCHANGED <<user, currentSessionId, sessionTitle, inputMessage,
                 messageViewModes, toggled, lastReply>>

\* Lines 190-193: saveMessage(errorMessage, 'assistant') settles; finally.
SaveApologyReturns(c) ==
  /\ calls[c].pc = "saveApology"
  /\ \E outcome \in {"ok", "throw"} :
       LET call == Saved(calls[c], outcome) IN
       /\ messages' = IF outcome = "ok"
                      THEN Append(messages,
                             NewMessage(messages, "assistant", errorMessage))
                      ELSE messages
       /\ calls' = [calls EXCEPT ![c] =
            Settle(call, IF outcome = "ok" THEN "done" ELSE "threw")]
  /\ isLoading' = FALSE
  /\ UNCHANGED <<user, currentSessionId, sessionTitle, inputMessage, error,
                 messageViewModes, toggled, lastReply>>

\* Line 448, onChange of the input, which is disabled while isLoading.
SetInputMessage ==
  /\ ~isLoading
  /\ \E t \in Inputs : inputMessage' = t
  /\ UNCHANGED <<user, currentSessionId, messages, sessionTitle, isLoading,
                 error, messageViewModes, calls, toggled, lastReply>>

(***************************************************************************)
(* The reply pipeline on its own: a parsed 2xx body is normalized,         *)
(* serialized and stored (lines 149-177; the apology of line 190 when the  *)
(* normalization throws), and the stored messages are rendered in the      *)
(* view modes toggleMessageView leaves.                                    *)
(***************************************************************************)
MaxMessages == 2

Canonical(t, d) == Obj2("textView", t, "dashboardView", d)

Legacy(r, mo) ==
  IF Tag(mo) = "undef" THEN Obj1("response", r)
  ELSE Obj2("response", r, "module_outputs", mo)

Warn == Obj1("alerts", JArr(<<Str("warn")>>))

Dashboards ==
  { EmptyObj,
    Warn,
    Obj1("alerts", JArr(<<JNull>>)),
    Obj1("tables", JArr(<<EmptyObj>>)),
    Obj1("tables", JArr(<<Obj2("headers", JArr(<<Str("h")>>),
                               "rows", JArr(<<JArr(<<Str("c")>>)>>))>>)),
    Obj1("charts", Str("none")),
    Obj1("charts", JArr(<<Obj1("data",
           Obj2("labels", JArr(<<Str("a"), Str("b")>>),
                "values", JArr(<<JNum(<<"5">>)>>)))>>)),
    Obj1("summaryCards", JArr(<<Obj2("title", Str("t"), "value", JNum(<<"1">>))>>)) }

ResponseTexts ==
  { JStr(<<>>),
    Str("plain"),
    Str("null"),
    JStr(Stringify(Canonical(Str("hi"), EmptyObj))),
    JStr(Stringify(Canonical(JStr(<<>>), Warn))),
    JStr(Stringify(Obj1("foo", Str("bar")))) }

ModuleOutputs == {Undef, JNull, JNum(<<"0">>), Warn}

Bodies ==
  {JNull, EmptyObj, JNum(<<"5">>)}
  \cup {Canonical(t, d) : t \in {Str("hi"), JStr(<<>>)}, d \in Dashboards}
  \cup {Legacy(r, mo) : r \in ResponseTexts, mo \in ModuleOutputs}

\* Bodies of the runs in which the stored replies are toggled and rendered.
RenderBodies ==
  { Canonical(Str("hi"), Warn),
    Canonical(Str("hi"), Obj1("tables", JArr(<<EmptyObj>>))),
    Canonical(Str("hi"), Obj1("alerts", JArr(<<JNull>>))),
    Canonical(Str("hi"), Obj1("charts", Str("none"))),
    Legacy(Str("plain"), Warn) }

\* Contents already in the store when the interface loads a session.
StoredContents ==
  { <<"hello", " ", "world">>,
    <<"null">>,
    <<"5">>,
    Stringify(JStr(Stringify(Canonical(Str("hi"), Warn)))),
    Stringify(Legacy(Str("plain"), Warn)),
    Stringify(Legacy(JStr(Stringify(Canonical(Str("hi"), Warn))), Undef)),
    Stringify(Obj1("foo", Str("bar"))),
    Stringify(Canonical(Str("hi"), Warn)) }

InitRender ==
  /\ user = TRUE
  /\ currentSessionId = 1
  /\ \E c \in StoredContents :
       messages = <<NewMessage(<<>>, "assistant", c)>>
  /\ sessionTitle = <<>>
  /\ inputMessage = <<>>
  /\ isLoading = FALSE
  /\ error = "null"
  /\ messageViewModes = [i \in {} |-> "text"]
  /\ calls = [c \in CallIds |-> IdleCall]
  /\ toggled = [id |-> <<>>, n |-> 0, before |-> <<>>]
  /\ lastReply = [body |-> Undef, ok |-> FALSE, reply |-> Undef]

\* Lines 149-177 (and 190): one reply is normalized and stored.
ReceiveReply(bodies) ==
  /\ Len(messages) < MaxMessages
  /\ \E data \in bodies :
       LET norm == Normalize(data) IN
       /\ lastReply' = [body |-> data, ok |-> norm[1], reply |-> norm[2]]
       /\ messages' = Append(messages, NewMessage(messages, "assistant",
                         IF norm[1] THEN Stringify(norm[2]) ELSE errorMessage))
  /\ UNCHANGED <<user, currentSessionId, sessionTitle, inputMessage, isLoading,
                 error, messageViewModes, calls, toggled>>

\* Line 379: the toggle of an assistant message is pressed.
ToggleMessageView ==
  /\ \E i \in 1..Len(messages) :
       /\ messages[i].sender = "assistant"
       /\ messageViewModes' = toggleMessageView(messageViewModes, messages[i].id)
       /\ toggled' =
            IF toggled.id = messages[i].id /\ toggled.n = 1
            THEN [toggled EXCEPT !.n = 2]
            ELSE [id |-> messages[i].id, n |-> 1,
                  before |-> [j \in 1..Len(messages) |->
                                Draw(messages[j], messageViewModes)]]
  /\ UNCHANGED <<user, currentSessionId, messages, sessionTitle, inputMessage,
                 isLoading, error, calls, lastReply>>

NextRender == ReceiveReply(RenderBodies) \/ ToggleMessageView

SpecRender == InitRender /\ [][NextRender]_vars

NextNormalize == ReceiveReply(Bodies)

SpecNormalize == InitRender /\ [][NextNormalize]_vars

Next ==
  \/ SetInputMessage
  \/ \E c \in CallIds :
       \/ SendMessage(c)
       \/ CreateSessionReturns(c)
       \/ SaveUserReturns(c)
       \/ UpdateTitleReturns(c)
       \/ FetchReturns(c)
       \/ JsonReturns(c)
       \/ SaveAssistantReturns(c)
       \/ SaveApologyReturns(c)

Spec == Init /\ [][Next]_vars
(***************************************************************************)
(* Properties                                                              *)
(***************************************************************************)
InFlight(c) == calls[c].pc \notin {"idle", "settled"}

\* C1: once every sendMessage call that set the in-flight flag has settled,
\* the flag is false again, whatever the outcome of its steps.
C1_FlagClearedWhenSettled ==
  ((\E c \in CallIds : calls[c].setLoading)
   /\ \A c \in CallIds : calls[c].setLoading => calls[c].pc = "settled")
  => ~isLoading

\* C2: the in-flight flag keeps dispatches apart: no two calls are in
\* progress at once, each with its user message handed to saveMessage and
\* its request issued.
C2_AtMostOneDispatch ==
  \A c, d \in CallIds :
    (c # d /\ InFlight(c) /\ InFlight(d))
    => ~(calls[c].requests > 0 /\ calls[d].requests > 0)

IsBlank(s) == \A i \in 1..Len(s) : s[i] = " "

NoFootprint(call) ==
  /\ call.saves = <<>>
  /\ call.requests = 0
  /\ ~call.titled
  /\ ~call.setLoading
  /\ ~call.errSet
  /\ ~call.toasted

\* C3: a sendMessage call that returns early (blank input, a send in
\* flight, no user, or a failed session creation) persists nothing, issues
\* no request, leaves the title, the input text, the in-flight flag and the
\* error state as they are.
C3_EarlyReturnIsNoOp ==
  [][\A c \in CallIds :
       /\ (/\ calls[c].pc = "idle"
           /\ calls'[c].pc # "idle"
           /\ (IsBlank(inputMessage) \/ isLoading \/ ~user))
          => /\ calls'[c].pc = "settled"
             /\ calls'[c].ret = "guard"
             /\ NoFootprint(calls'[c])
             /\ UNCHANGED <<messages, sessionTitle, inputMessage, isLoading,
                            error, currentSessionId>>
       /\ (calls[c].pc = "createSession" /\ calls'[c].ret = "nosession")
          => /\ NoFootprint(calls'[c])
             /\ UNCHANGED <<messages, sessionTitle, inputMessage, isLoading,
                            error>>]_vars

C3_Witness ==
  /\ \E c \in CallIds : calls[c].ret = "nosession"
  /\ \E c \in CallIds : calls[c].ret = "guard" /\ calls[c].text = <<" ">>

HasField(v, name) ==
  Tag(v) = "obj" /\ \E i \in 1..Len(Pay(v)) : Pay(v)[i][1] = <<name>>

\* The normalization as the specification words it: fields that are present.
SpecifiedFallback(body) ==
  Obj2("textView", Get(body, "response"),
       "dashboardView",
       IF HasField(body, "module_outputs")
          /\ Tag(Get(body, "module_outputs")) # "null"
       THEN Get(body, "module_outputs") ELSE EmptyObj)

SpecifiedReply(body) ==
  IF HasField(body, "response")
  THEN IF JSONParse(Get(body, "response"))[1]
          /\ HasField(JSONParse(Get(body, "response"))[2], "textView")
       THEN JSONParse(Get(body, "response"))[2]
       ELSE SpecifiedFallback(body)
  ELSE body

\* C4: for every parsed 2xx body the normalized reply is the one the
\* specified algorithm gives: the parsed response when it has a textView
\* field, {textView: response, dashboardView: module_outputs or {}} when
\* response is there but does not, the body itself without a response field.
C4_NormalizationAsSpecified ==
  Tag(lastReply.body) = "obj"
  => lastReply.ok /\ lastReply.reply = SpecifiedReply(lastReply.body)

IsReplyText(t) ==
  ParseText(t)[1] /\ HasField(ParseText(t)[2], "textView")

\* C5: every assistant message sendMessage persisted has as content the JSON
\* serialization of an object with a textView field.
C5_AssistantContentIsReply ==
  \A c \in CallIds : \A i \in 1..Len(calls[c].saves) :
    (calls[c].saves[i][1] = "assistant" /\ calls[c].saves[i][3] = "ok")
    => IsReplyText(calls[c].saves[i][2])

IsNormalizedReply(v) ==
  /\ Tag(v) = "obj"
  /\ Tag(Get(v, "textView")) = "str"
  /\ Tag(Get(v, "dashboardView")) = "obj"

\* C6: a NormalizedAgentReply that was serialized and stored is classified
\* by the renderer as Shape A, with textContent its textView and
\* dashboardContent its dashboardView.
C6_RoundTrip ==
  (lastReply.ok /\ IsNormalizedReply(lastReply.reply))
  => Classify(messages[Len(messages)].content) =
       [shape |-> "A", textContent |-> Get(lastReply.reply, "textView"),
        dashboardContent |-> Get(lastReply.reply, "dashboardView")]

\* C7: rendering a stored assistant message never throws, in either view
\* mode, and content that is not valid JSON is rendered as the raw string.
C7_RenderingTotal ==
  \A i \in 1..Len(messages) :
    messages[i].sender = "assistant"
    => /\ Draw(messages[i], messageViewModes).kind # "threw"
       /\ ~ParseText(messages[i].content)[1]
          => Draw(messages[i], messageViewModes) =
               [kind |-> "rawMarkdown", content |-> JStr(messages[i].content)]

LastSave(call) == call.saves[Len(call.saves)]

\* C8: a call whose request failed (non-2xx status or a rejected request)
\* persists the apology, sets the error state, raises the notification and
\* completes without an exception.
C8_DispatchFailureRecovered ==
  \A c \in CallIds :
    (calls[c].pc = "settled" /\ calls[c].fetched \in {"non2xx", "reject"})
    => /\ calls[c].ret = "done"
       /\ calls[c].errSet
       /\ calls[c].toasted
       /\ LastSave(calls[c]) = <<"assistant", errorMessage, "ok">>

\* A body whose response field is there and is no canonical reply.
MalformedResponse(body) ==
  /\ Tag(body) = "obj"
  /\ Truthy(Get(body, "response"))
  /\ ~(/\ JSONParse(Get(body, "response"))[1]
       /\ Truthy(Get(JSONParse(Get(body, "response"))[2], "textView")))

RawTextReply(body) ==
  Stringify(Obj2("textView", Get(body, "response"),
                 "dashboardView",
                 IF Truthy(Get(body, "module_outputs"))
                 THEN Get(body, "module_outputs") ELSE EmptyObj))

\* C9 as claimed: a malformed reply on a 2xx response (a body that fails
\* JSON parsing, the body null, a response field that is no canonical
\* reply) sets no error state, raises no notification, stores no apology.
C9_MalformedNeverSurfaced ==
  \A c \in CallIds :
    (\/ calls[c].fetched = "badjson"
     \/ (calls[c].fetched = "ok" /\ Tag(calls[c].body) = "null")
     \/ (calls[c].fetched = "ok" /\ MalformedResponse(calls[c].body)))
    => /\ ~calls[c].errSet
       /\ ~calls[c].toasted
       /\ \A i \in 1..Len(calls[c].saves) :
            calls[c].saves[i][2] # errorMessage

\* C9 as amended: a response field that is no canonical reply is handed to
\* saveMessage as {textView: response, dashboardView: module_outputs || {}},
\* and the error state, the notification and the apology follow only when
\* that saveMessage call rejects; a body that fails JSON parsing, or the
\* body null, takes the failure path.
C9_MalformedResponseRecovered ==
  \A c \in CallIds :
    /\ (calls[c].fetched = "ok" /\ MalformedResponse(calls[c].body))
       => /\ Len(calls[c].saves) >= 2
          /\ calls[c].saves[2][1] = "assistant"
          /\ calls[c].saves[2][2] = RawTextReply(calls[c].body)
          /\ (calls[c].errSet \/ calls[c].toasted \/ Len(calls[c].saves) > 2)
             => calls[c].saves[2][3] = "throw"
          /\ (calls[c].pc = "settled" /\ calls[c].saves[2][3] = "ok")
             => calls[c].ret = "done"
    /\ (\/ calls[c].fetched = "badjson"
        \/ (calls[c].fetched = "ok" /\ Tag(calls[c].body) = "null"))
       => /\ calls[c].errSet
          /\ calls[c].toasted
          /\ calls[c].saves[2][2] = errorMessage

C9_Witness ==
  \E c \in CallIds :
    /\ calls[c].ret = "done"
    /\ MalformedResponse(calls[c].body)
    /\ ~ParseText(Pay(Get(calls[c].body, "response")))[1]
    /\ ~calls[c].errSet
    /\ \E i \in 1..Len(messages) :
         messages[i].content = RawTextReply(calls[c].body)

\* C10: a message that was never toggled is not rendered as a dashboard,
\* and after two toggles of the same message every message is rendered as
\* it was before them.
C10_ToggleInvolution ==
  /\ \A i \in 1..Len(messages) :
       messages[i].id \notin DOMAIN messageViewModes
       => Draw(messages[i], messageViewModes).kind \in {"markdown", "rawMarkdown"}
  /\ toggled.n = 2
     => \A j \in DOMAIN toggled.before :
          Draw(messages[j], messageViewModes) = toggled.before[j]

C10_Witness ==
  /\ toggled.n = 2
  /\ Len(messages) = 2
  /\ \E j \in 1..Len(messages) :
       /\ messages[j].id = toggled.id
       /\ messageViewModes[toggled.id] = "text"
       /\ Truthy(Classify(messages[j].content).dashboardContent)
  /\ \E j \in 1..Len(messages) :
       /\ messages[j].id # toggled.id
       /\ Draw(messages[j], messageViewModes).kind = "dashboard"

\* The messages of a list that are not synthetic welcome messages.
RealMessages(msgs) == {i \in 1..Len(msgs) : ~IsWelcome(msgs[i])}

\* C11: a call that got past the title step updated the session title if
\* and only if the session held no message other than welcome messages
\* before the send; a send into a session that already holds a non-welcome
\* message never changes the title.
C11_TitleIffFirstRealMessage ==
  \A c \in CallIds :
    calls[c].requests > 0
    => (calls[c].titled <=> RealMessages(calls[c].seen) = {})

\* Content that is a JSON string literal whose value is the serialization of
\* an object with the fields textView and dashboardView.
InnerObject(content) ==
  LET outer == ParseText(content) IN
  IF outer[1] /\ Tag(outer[2]) = "str" THEN JSONParse(outer[2])
  ELSE <<FALSE, Undef>>

IsDoublyEncoded(content) ==
  /\ InnerObject(content)[1]
  /\ HasField(InnerObject(content)[2], "textView")
  /\ HasField(InnerObject(content)[2], "dashboardView")

\* C12: a stored content that is doubly JSON-encoded is classified by its
\* inner object (textContent is its textView, dashboardContent its
\* dashboardView), and the raw-markdown fallback is taken only for content
\* on which both the parse and the parse of the parse fail.
C12_DoubleEncodingDecoded ==
  \A i \in 1..Len(messages) :
    LET content == messages[i].content IN
    /\ IsDoublyEncoded(content)
       => /\ Classify(content).textContent =
               Get(InnerObject(content)[2], "textView")
          /\ Classify(content).dashboardContent =
               Get(InnerObject(content)[2], "dashboardView")
    /\ Classify(content).shape = "raw"
       => (~ParseText(content)[1] /\ ~InnerObject(content)[1])

\* The saves of a call, in order, that were handed an assistant message.
AssistantSaves(call) ==
  {i \in 1..Len(call.saves) : call.saves[i][1] = "assistant"}

\* The order of a call's steps: the user's message is persisted before the
\* request is issued, no second request is issued, and an assistant message
\* is handed to saveMessage only after the request, at most one persisted.
OrderRespected(call) ==
  /\ call.requests <= 1
  /\ call.requests = 1 => call.saves[1] = <<"user", call.text, "ok">>
  /\ AssistantSaves(call) # {} => call.requests = 1
  /\ \A i \in AssistantSaves(call) : i > 1
  /\ Cardinality({i \in AssistantSaves(call) : call.saves[i][3] = "ok"}) <= 1

\* A settled call issued its one request and persisted both messages.
ExactlyOnce(call) ==
  /\ call.saves[1] = <<"user", call.text, "ok">>
  /\ call.requests = 1
  /\ Cardinality({i \in AssistantSaves(call) : call.saves[i][3] = "ok"}) = 1

\* C13: every call that passed the guards and has a session persists the
\* user's message, then issues the request, then persists the assistant
\* message: the user's message stays persisted whatever the request's
\* outcome, exactly one request is issued, and exactly one assistant
\* message (the reply or the apology) is persisted after it.
C13_PersistRequestPersist ==
  \A c \in CallIds :
    calls[c].setLoading
    => /\ OrderRespected(calls[c])
       /\ calls[c].pc = "settled" => ExactlyOnce(calls[c])
====
